---- MODULE Spec2Model ----
(***************************************************************************)
(* abaaso promise engine (src/unnamed/part_000): the Promise entity, the   *)
(* deferred resolve/reject methods, then/vouch registration and the        *)
(* promise.resolve settlement routine, as a state machine driven by a      *)
(* caller and by the FIFO queue of deferred jobs.                          *)
(***************************************************************************)
EXTENDS Integers, Sequences, FiniteSets, TLC

\* Bounds of the exploration.
MaxPromises == 5
MaxCalls == 2
MaxThens == 2
FairCalls == 2
FairThens == 1

VARIABLES
  promises,   \* sequence of Promise objects, a Promise is named by its index
  queue,      \* deferred jobs scheduled with utility.defer, in FIFO order
  reg,        \* per Promise, the closure environment of the then call that made it
  log,        \* history: invocations of user callbacks
  calls,      \* history: the caller's resolve / reject calls
  thens,      \* history: number of then calls the caller made
  clock,      \* history: number of deferred jobs executed
  thrown,     \* the error the last operation raised to its caller
  strict      \* whether the build runs the engine in strict mode: "strict" or
              \* "sloppy", "unknown" until an assignment to a frozen object shows it

vars == <<promises, queue, reg, log, calls, thens, clock, thrown, strict>>

-----------------------------------------------------------------------------
(* Values *)

Undefined == [t |-> "undefined", n |-> 0, s |-> ""]
Null == [t |-> "null", n |-> 0, s |-> ""]
Num(n) == [t |-> "number", n |-> n, s |-> ""]
NaN == [t |-> "number", n |-> 0, s |-> "NaN"]
Bool(b) == [t |-> "boolean", n |-> IF b THEN 1 ELSE 0, s |-> ""]
Str(s) == [t |-> "string", n |-> 0, s |-> s]
Obj(n) == [t |-> "object", n |-> n, s |-> ""]
Err(msg) == [t |-> "error", n |-> 0, s |-> msg]
Prom(id) == [t |-> "promise", n |-> id, s |-> ""]

\* JavaScript truthiness, as used by `result || self.outcome`.
Truthy(v) ==
  CASE v.t = "undefined" -> FALSE
    [] v.t = "null" -> FALSE
    [] v.t = "boolean" -> v.n = 1
    [] v.t = "number" -> v.n # 0 /\ v.s # "NaN"
    [] v.t = "string" -> v.s # ""
    [] OTHER -> TRUE

Or(a, b) == IF Truthy(a) THEN a ELSE b

Digits == <<"0", "1", "2", "3", "4", "5", "6", "7", "8", "9">>

RECURSIVE NumStr(_)
NumStr(n) ==
  IF n < 0 THEN "-" \o NumStr(0 - n)
  ELSE IF n < 10 THEN Digits[n + 1]
  ELSE NumStr(n \div 10) \o Digits[(n % 10) + 1]

\* String(v)
ToStr(v) ==
  CASE v.t = "undefined" -> "undefined"
    [] v.t = "null" -> "null"
    [] v.t = "boolean" -> IF v.n = 1 THEN "true" ELSE "false"
    [] v.t = "number" -> IF v.s = "NaN" THEN "NaN" ELSE NumStr(v.n)
    [] v.t = "string" -> v.s
    [] v.t = "error" -> "Error: " \o v.s
    [] OTHER -> "[object Object]"

\* typeof v === "object"
TypeofObject(v) == v.t \in {"null", "object", "error", "promise"}

\* json.encode: the structured object {code: n}, null, or a scalar
JsonEncode(v) ==
  CASE v.t = "object" -> Str("{\"code\":" \o NumStr(v.n) \o "}")
    [] v.t = "string" -> Str("\"" \o v.s \o "\"")
    [] v.t \in {"error", "promise"} -> Str("{}")
    [] OTHER -> Str(ToStr(v))

\* Error( result )
Error(v) == Err(IF v.t = "undefined" THEN "" ELSE ToStr(v))

\* The user callback  v => v + 1
Plus1(v) ==
  CASE v.t = "number" -> IF v.s = "NaN" THEN NaN ELSE Num(v.n + 1)
    [] v.t = "boolean" -> Num(v.n + 1)
    [] v.t = "null" -> Num(1)
    [] v.t = "undefined" -> NaN
    [] OTHER -> Str(ToStr(v) \o "1")

-----------------------------------------------------------------------------
(* The Promise entity and the deferred methods *)

pending == "pending"
resolved == "fulfilled"
broken == "rejected"

NewPromise ==
  [state |-> pending, outcome |-> Null, fulfill |-> <<>>, error |-> <<>>,
   parentNode |-> 0, frozen |-> FALSE]

\* reg entry of a Promise made by the factory
NoThen ==
  [self |-> 0, success |-> FALSE, failure |-> FALSE, fwd |-> 0, wasS |-> "", wasF |-> ""]

\* utility.defer: the job joins the FIFO queue of deferred callbacks
Defer(st, job) == [st EXCEPT !.q = Append(@, job)]

\* A resolve that settles at once instead of deferring.
MethodResolveSync(st, self, arg) ==
  [st EXCEPT !.ps[self].state = resolved, !.ps[self].outcome = arg, !.ret = Prom(self)]

\* A reject that settles at once instead of deferring.
MethodRejectSync(st, self, arg) ==
  [st EXCEPT !.ps[self].state = broken, !.ps[self].outcome = arg, !.ret = Prom(self)]

MethodReject(st, self, arg) ==
  [Defer(st, [self |-> self, state |-> broken, val |-> arg]) EXCEPT !.ret = Prom(self)]

MethodResolve(st, self, arg) ==
  [Defer(st, [self |-> self, state |-> resolved, val |-> arg]) EXCEPT !.ret = Prom(self)]

Resolved(p) == p.state = broken \/ p.state = resolved

Raised(st) == st.thrown # "none"

\* return v, unless the call has raised
Returning(st, v) == IF Raised(st) THEN st ELSE [st EXCEPT !.ret = v]

\* An assignment to a property of a Promise: a frozen object rejects it,
\* with a TypeError in strict mode and silently otherwise.  Like every
\* statement below, it is skipped once the call has raised.
Write(st, id, field, val) ==
  IF Raised(st) THEN st
  ELSE IF st.ps[id].frozen
  THEN IF st.mode = "strict" THEN [st EXCEPT !.thrown = "TypeError", !.seen = TRUE]
       ELSE [st EXCEPT !.seen = TRUE]
  ELSE [st EXCEPT !.ps[id][field] = val]

-----------------------------------------------------------------------------
(* Registration: then, its continuation wrapper fn, and vouch.  A machine  *)
(* state st carries the heap (ps), the deferred queue (q), the closure     *)
(* environments (reg), the callback history (log), the value the current   *)
(* call returns (ret), the error it raises (thrown), and the deferred job  *)
(* it runs in (at, 0 for a call of the caller).                            *)

\* What a user callback does when invoked: return v, return arg + 1, or raise v.
Ret(v) == [k |-> "ret", v |-> v]
Inc == [k |-> "inc", v |-> Undefined]
Throw(v) == [k |-> "throw", v |-> v]

\* A catch block that casts an object to an Error without encoding it.
CaughtRaw(e) == IF e # Undefined /\ e.t # "error" THEN Error(e) ELSE e

\* catch ( e ): a raised value that is neither undefined nor an Error is
\* cast to an Error, an object being JSON-encoded first.
Caught(e) ==
  IF e # Undefined /\ e.t # "error"
  THEN Error(IF TypeofObject(e) THEN JsonEncode(e) ELSE e)
  ELSE e

RECURSIVE Fn(_, _, _, _), Finally(_, _, _, _, _), Adopt(_, _, _), Then(_, _, _, _, _, _), Vouch(_, _, _, _, _)

\* A vouch without late registration: a settled Promise drops the continuation.
VouchNoLate(st, self, state, h, b) ==
  IF Raised(st) THEN st
  ELSE IF st.ps[self].state = pending
  THEN [st EXCEPT !.reg[h.d][IF h.yay THEN "wasS" ELSE "wasF"] = pending,
                  !.ps[self][IF state = resolved THEN "fulfill" ELSE "error"] = Append(@, h),
                  !.ret = Prom(self)]
  ELSE [st EXCEPT !.reg[h.d][IF h.yay THEN "wasS" ELSE "wasF"] = st.ps[self].state,
                  !.ret = Prom(self)]

\* A vouch that invokes the continuation on a Promise settled to either branch.
VouchAnyBranch(st, self, state, h, b) ==
  IF Raised(st) THEN st
  ELSE IF st.ps[self].state = pending
  THEN [st EXCEPT !.reg[h.d][IF h.yay THEN "wasS" ELSE "wasF"] = pending,
                  !.ps[self][IF state = resolved THEN "fulfill" ELSE "error"] = Append(@, h),
                  !.ret = Prom(self)]
  ELSE Returning(Fn([st EXCEPT !.reg[h.d][IF h.yay THEN "wasS" ELSE "wasF"] = st.ps[self].state],
                    h.d, h.yay, b), Prom(self))

\* promise.vouch, for the continuation h = [d, yay] of the then call that made d;
\* reg[d].wasS / wasF keep the state vouch found the Promise in (history).
Vouch(st, self, state, h, b) ==
  IF Raised(st) THEN st
  ELSE IF st.ps[self].state = pending
  THEN [st EXCEPT !.reg[h.d][IF h.yay THEN "wasS" ELSE "wasF"] = pending,
                  !.ps[self][IF state = resolved THEN "fulfill" ELSE "error"] = Append(@, h),
                  !.ret = Prom(self)]
  ELSE IF st.ps[self].state = state
  THEN Returning(Fn([st EXCEPT !.reg[h.d][IF h.yay THEN "wasS" ELSE "wasF"] = state],
                    h.d, h.yay, b), Prom(self))
  ELSE [st EXCEPT !.reg[h.d][IF h.yay THEN "wasS" ELSE "wasF"] = st.ps[self].state,
                  !.ret = Prom(self)]

\* if ( typeof callback === "function" ) promise.vouch.call( this, state, ... )
VouchIf(callable, st, self, state, h, b) ==
  IF callable THEN Vouch(st, self, state, h, b) ELSE st

\* deferred = promise.factory(), with the closure environment of fn
NewDeferred(st, self, success, failure, fwd) ==
  [st EXCEPT !.ps = Append(@, NewPromise),
             !.reg = Append(@, [NoThen EXCEPT !.self = self, !.success = success,
                                              !.failure = failure, !.fwd = fwd])]

\* deferred.parentNode = self; return deferred
ThenReturn(st, self, d) ==
  IF Raised(st) THEN st ELSE [st EXCEPT !.ps[d].parentNode = self, !.ret = Prom(d)]

\* promise.methods.then on self; fwd # 0 when the two callbacks are the
\* forwarding closures of an adoption, which call resolve / reject on fwd.
Then(st, self, success, failure, fwd, b) ==
  IF Raised(st) THEN st
  ELSE ThenReturn(
         VouchIf(failure,
                 VouchIf(success, NewDeferred(st, self, success, failure, fwd),
                         self, resolved, [d |-> Len(st.ps) + 1, yay |-> TRUE], b),
                 self, broken, [d |-> Len(st.ps) + 1, yay |-> FALSE], b),
         self, Len(st.ps) + 1)

\* The else branch of fn's finally block: the result is the Promise q.
Adopt(st, self, q) ==
  Returning(Then(Write(Write(Write(st, self, "state", pending),
                             self, "outcome", Null),
                       q, "parentNode", self),
                 q, TRUE, TRUE, self, Ret(Undefined)),
            Prom(q))

\* fn's finally block
Finally(st, d, self, result, error) ==
  IF result.t # "promise"
  THEN IF error /\ result = Undefined
       THEN [st EXCEPT !.thrown = "invalidArguments"]
       ELSE Returning(IF ~error THEN MethodResolve(st, d, Or(result, st.ps[self].outcome))
                      ELSE MethodReject(st, d, Or(result, st.ps[self].outcome)),
                      result)
  ELSE Adopt(st, self, result.n)

\* What handler( self.outcome ) leaves in result: the value returned, or the
\* value raised as the catch block converts it.
HandlerResult(b, arg) ==
  CASE b.k = "ret" -> b.v
    [] b.k = "inc" -> Plus1(arg)
    [] OTHER -> Caught(b.v)

\* fn( yay ) of the then call that made d; b is what the user callback does.
\* The forwarding closures of an adoption call resolve / reject on reg[d].fwd
\* and return nothing.
Fn(st, d, yay, b) ==
  IF st.reg[d].fwd # 0
  THEN Finally(IF yay THEN MethodResolve(st, st.reg[d].fwd, st.ps[st.reg[d].self].outcome)
               ELSE MethodReject(st, st.reg[d].fwd, st.ps[st.reg[d].self].outcome),
               d, st.reg[d].self, Undefined, FALSE)
  ELSE Finally([st EXCEPT !.log = Append(@, [d |-> d, yay |-> yay, b |-> b, at |-> st.at,
                                             arg |-> st.ps[st.reg[d].self].outcome,
                                             was |-> IF b.v.t = "promise"
                                                     THEN st.ps[b.v.n].state ELSE ""])],
               d, st.reg[d].self, HandlerResult(b, st.ps[st.reg[d].self].outcome),
               b.k = "throw")

-----------------------------------------------------------------------------
(* Settlement: promise.resolve *)

\* array.remove( obj, idx )
ArrayRemove(seq, idx) == SubSeq(seq, 1, idx - 1) \o SubSeq(seq, idx + 1, Len(seq))

\* while ( i-- ) array.remove( self[handler], purge[i] )
RECURSIVE Purge(_, _, _)
Purge(seq, purge, i) ==
  IF i = 0 THEN seq ELSE Purge(ArrayRemove(seq, purge[i]), purge, i - 1)

\* The locals of promise.resolve
NoLocals(state) ==
  [state |-> state, pending |-> FALSE, error |-> FALSE, reason |-> Undefined,
   result |-> Undefined, purge |-> <<>>]

\* array.each( this[handler], ... ): the drain, from index i to nth.  The
\* result is the machine state and the locals of promise.resolve.  EachStep
\* is the callback of array.each after its first statement, s1 being the
\* machine state fn.call( self, val ) leaves.
RECURSIVE Each(_, _, _, _, _, _, _), EachStep(_, _, _, _, _, _, _)
EachStep(s1, loc, self, handler, i, nth, bs) ==
  IF Raised(s1) THEN [st |-> s1, loc |-> loc]
  ELSE IF s1.ret.t = "promise"
  THEN [st |-> [s1 EXCEPT !.ps[self].outcome = Null, !.ps[self].state = pending],
        loc |-> [loc EXCEPT !.result = s1.ret, !.purge = Append(@, i), !.pending = TRUE]]
  ELSE IF s1.ret.t = "error"
  THEN Each(s1, [loc EXCEPT !.result = s1.ret, !.purge = Append(@, i), !.error = TRUE,
                            !.reason = s1.ret, !.state = broken],
            self, handler, i + 1, nth, bs)
  ELSE Each(s1, [loc EXCEPT !.result = s1.ret, !.purge = Append(@, i)],
            self, handler, i + 1, nth, bs)

Each(st, loc, self, handler, i, nth, bs) ==
  IF i > nth THEN [st |-> st, loc |-> loc]
  ELSE EachStep(Fn(st, st.ps[self][handler][i].d, st.ps[self][handler][i].yay, bs[i]),
                loc, self, handler, i, nth, bs)

\* Reverse chaining: the parent, when pending, is resolved or rejected.
Reverse(st, self, state, result) ==
  IF st.ps[self].parentNode # 0 /\ st.ps[st.ps[self].parentNode].state = pending
  THEN IF state = resolved
       THEN MethodResolve(st, st.ps[self].parentNode, Or(result, st.ps[self].outcome))
       ELSE MethodReject(st, st.ps[self].parentNode, Or(result, st.ps[self].outcome))
  ELSE st

\* Object.freeze( this ); return this
\* An engine without Object.freeze: the settled Promise stays writable.
FreezeNot(st, self) == [st EXCEPT !.ret = Prom(self)]

Freeze(st, self) == [st EXCEPT !.ps[self].frozen = TRUE, !.ret = Prom(self)]

\* The part of promise.resolve after the drain.
Settle(st, loc, self, handler) ==
  IF ~loc.pending
  THEN Freeze(Reverse([st EXCEPT !.ps[self].error = <<>>, !.ps[self].fulfill = <<>>],
                      self,
                      IF ~loc.error THEN resolved ELSE loc.state,
                      IF ~loc.error THEN loc.reason ELSE loc.result),
              self)
  ELSE [st EXCEPT !.ps[self][handler] = Purge(@, loc.purge, Len(loc.purge)),
                  !.ret = loc.result]

\* A raise in the drain leaves promise.resolve at once.
AfterEach(dr, self, handler) ==
  IF Raised(dr.st) THEN dr.st ELSE Settle(dr.st, dr.loc, self, handler)

\* A double-settlement check placed after the assignments it guards.
DoubleSettleLate(st, self, state, val) ==
  [st EXCEPT !.ps[self].state = state, !.ps[self].outcome = val,
             !.thrown = "promiseResolved"]

\* throw Error( label.error.promiseResolved ... ): the Promise is not pending
DoubleSettle(st, self, state, val) == [st EXCEPT !.thrown = "promiseResolved"]

\* A settlement that records the state but not the value.
ResolveNoOutcome(st, self, state, val, bs) ==
  IF st.ps[self].state # pending
  THEN DoubleSettle(st, self, state, val)
  ELSE AfterEach(Each([st EXCEPT !.ps[self].state = state], NoLocals(state), self,
                      IF state = broken THEN "error" ELSE "fulfill", 1,
                      Len(st.ps[self][IF state = broken THEN "error" ELSE "fulfill"]), bs),
                 self, IF state = broken THEN "error" ELSE "fulfill")

\* promise.resolve.call( self, state, val ); bs[i] is what the user callback
\* of the i-th drained continuation does.
Resolve(st, self, state, val, bs) ==
  IF st.ps[self].state # pending
  THEN DoubleSettle(st, self, state, val)
  ELSE AfterEach(Each([st EXCEPT !.ps[self].state = state, !.ps[self].outcome = val],
                      NoLocals(state), self,
                      IF state = broken THEN "error" ELSE "fulfill", 1,
                      Len(st.ps[self][IF state = broken THEN "error" ELSE "fulfill"]), bs),
                 self, IF state = broken THEN "error" ELSE "fulfill")

-----------------------------------------------------------------------------
(* The caller and the scheduler.  The caller holds two Promises made by    *)
(* the factory and the Promises its then calls return; its calls and the   *)
(* deferred jobs interleave freely.                                        *)

\* The value the caller resolves with, and the one it rejects with.
ResolveValues == {Num(10)}
RejectValues == {Num(0)}

\* Values a user callback returns, other than a Promise.
PlainReturns == {Undefined, Num(0), Err("boom")}

\* Values a user callback raises.
Raises == {Undefined, Err("boom"), Obj(1)}

\* A Promise the caller holds: made by the factory, or returned by a then
\* call of the caller that did not raise.
Known(ps, rg, id) == rg[id].fwd = 0 /\ (rg[id].self = 0 \/ ps[id].parentNode # 0)

KnownIds == {id \in 1..Len(promises) : Known(promises, reg, id)}

\* The two factory Promises are interchangeable until one is used: the
\* caller's first call is on the first.
Targets == IF calls = <<>> /\ thens = 0 THEN {1} ELSE KnownIds

\* What a user callback registered on self may do; a Promise it returns is
\* a factory Promise other than self.
Behaviours(self) ==
  {Ret(v) : v \in PlainReturns} \cup {Inc} \cup {Throw(e) : e \in Raises}
    \cup {Ret(Prom(id)) : id \in {i \in KnownIds : reg[i].self = 0 /\ i # self}}

\* The modes the build may turn out to have; they differ only where a
\* frozen Promise exists.
Modes ==
  IF strict # "unknown" THEN {strict}
  ELSE IF \E id \in 1..Len(promises) : promises[id].frozen THEN {"strict", "sloppy"}
  ELSE {"strict"}

Machine(q, at, mode) ==
  [ps |-> promises, q |-> q, reg |-> reg, log |-> log, thrown |-> "none",
   ret |-> Undefined, at |-> at, mode |-> mode, seen |-> FALSE]

Commit(st) ==
  /\ Len(st.ps) <= MaxPromises
  /\ promises' = st.ps
  /\ queue' = st.q
  /\ reg' = st.reg
  /\ log' = st.log
  /\ thrown' = st.thrown
  /\ strict' = IF st.seen THEN st.mode ELSE strict

Init ==
  /\ promises = <<NewPromise, NewPromise>>
  /\ queue = <<>>
  /\ reg = <<NoThen, NoThen>>
  /\ log = <<>>
  /\ calls = <<>>
  /\ thens = 0
  /\ clock = 0
  /\ thrown = "none"
  /\ strict = "unknown"

\* p.resolve( v )
CallResolve ==
  /\ Len(calls) < MaxCalls
  /\ \E p \in Targets, v \in ResolveValues :
    /\ LET st == MethodResolve(Machine(queue, 0, strict), p, v) IN Commit(st)
    /\ calls' = Append(calls, [p |-> p, state |-> resolved, val |-> v])
    /\ UNCHANGED <<thens, clock>>

\* p.reject( v )
CallReject ==
  /\ Len(calls) < MaxCalls
  /\ \E p \in Targets, v \in RejectValues :
    /\ LET st == MethodReject(Machine(queue, 0, strict), p, v) IN Commit(st)
    /\ calls' = Append(calls, [p |-> p, state |-> broken, val |-> v])
    /\ UNCHANGED <<thens, clock>>

\* Whether a then on p with these callbacks invokes one of them at once.
Immediate(p, success, failure) ==
  \/ success /\ promises[p].state = resolved
  \/ failure /\ promises[p].state = broken

\* p.then( success, failure ), at least one of the arguments a function
CallThen ==
  /\ thens < MaxThens
  /\ Len(promises) < MaxPromises
  /\ \E p \in Targets, flags \in {<<TRUE, FALSE>>, <<FALSE, TRUE>>, <<TRUE, TRUE>>} :
     LET success == flags[1]
         failure == flags[2]
     IN \E b \in IF Immediate(p, success, failure) THEN Behaviours(p) ELSE {Ret(Undefined)},
           mode \in IF Immediate(p, success, failure) THEN Modes ELSE {"strict"} :
      /\ LET st == Then(Machine(queue, 0, mode), p, success, failure, 0, b) IN Commit(st)
      /\ thens' = thens + 1
      /\ UNCHANGED <<calls, clock>>

\* The continuations the job at the head of the queue will drain.
Drained ==
  LET j == Head(queue)
  IN IF promises[j.self].state # pending THEN <<>>
     ELSE promises[j.self][IF j.state = broken THEN "error" ELSE "fulfill"]

\* b stops the drain: the callback returns a Promise or raises undefined.
Stops(b) == b.v.t = "promise" \/ b = Throw(Undefined)

\* What the drained callbacks hs[i..] do; forwarding closures and callbacks
\* the drain does not reach have nothing to choose.
RECURSIVE ChoicesFrom(_, _, _)
ChoicesFrom(hs, i, B) ==
  IF i > Len(hs) THEN {<<>>}
  ELSE IF reg[hs[i].d].fwd # 0
  THEN {<<Ret(Undefined)>> \o rest : rest \in ChoicesFrom(hs, i + 1, B)}
  ELSE UNION {IF Stops(b) THEN {<<b>> \o [k \in 1..(Len(hs) - i) |-> Ret(Undefined)]}
              ELSE {<<b>> \o rest : rest \in ChoicesFrom(hs, i + 1, B)} : b \in B}

Choices == ChoicesFrom(Drained, 1, Behaviours(Head(queue).self))

\* The scheduler runs the oldest deferred job to completion.
RunJob ==
  /\ queue # <<>>
  /\ \E bs \in Choices, mode \in Modes :
       LET j == Head(queue)
           st == Resolve(Machine(Tail(queue), clock + 1, mode), j.self, j.state, j.val, bs)
       IN Commit(st)
  /\ clock' = clock + 1
  /\ UNCHANGED <<calls, thens>>

Next == CallResolve \/ CallReject \/ CallThen \/ RunJob

Spec == Init /\ [][Next]_vars

\* The same caller making fewer calls, under a scheduler that runs every job
\* utility.defer was given: a queued job is eventually executed.
FairCallResolve == Len(calls) < FairCalls /\ CallResolve
FairCallReject == Len(calls) < FairCalls /\ CallReject
FairCallThen == thens < FairThens /\ CallThen
FairNext == FairCallResolve \/ FairCallReject \/ FairCallThen \/ RunJob
FairSpec == Init /\ [][FairNext]_vars /\ WF_vars(RunJob)

-----------------------------------------------------------------------------
(* Properties *)

\* The entries a step adds to the callback history, and the jobs it schedules.
NewEntries == (Len(log) + 1)..Len(log')
NewJobs == (IF clock' = clock + 1 THEN Len(queue) ELSE Len(queue) + 1)..Len(queue')

IsJob == clock' = clock + 1
IsCall == Len(calls') = Len(calls) + 1
IsThen == thens' = thens + 1

\* The caller has settled only Promises it made with the factory.
FactoryCallsOnly == \A c \in 1..Len(calls) : reg[calls[c].p].self = 0

\* The callbacks of the then call that made d have been invoked once in all.
InvokedOnce(d) == Cardinality({k \in 1..Len(log) : log[k].d = d}) = 1

\* No callback registered on d has returned a Promise.
NeverAdopted(d) ==
  \A k \in 1..Len(log) : reg[log[k].d].self = d => log[k].b.v.t # "promise"

JsonOfObj1 == "{\"code\":1}"

\* C1: running promise.resolve on a Promise that is not pending raises the
\* double-settlement error and leaves the Promise's state, outcome and both
\* continuation sequences as they were.
C1_DoubleSettlement ==
  [][(IsJob /\ promises[Head(queue).self].state # pending)
       => /\ thrown' = "promiseResolved"
          /\ promises'[Head(queue).self].state = promises[Head(queue).self].state
          /\ promises'[Head(queue).self].outcome = promises[Head(queue).self].outcome
          /\ promises'[Head(queue).self].fulfill = promises[Head(queue).self].fulfill
          /\ promises'[Head(queue).self].error = promises[Head(queue).self].error]_vars

\* A deferred job has met a Promise settled to one state with a request for the other.
C1_Witness ==
  /\ thrown = "promiseResolved"
  /\ \E c \in 1..Len(calls) :
       /\ Resolved(promises[calls[c].p])
       /\ promises[calls[c].p].state # calls[c].state

\* C2: resolve( value ) and reject( value ) only append one deferred job and
\* return the same Promise, the heap being left as it was; a Promise becomes
\* settled only in the step that runs a deferred job on that Promise.
C2_DeferredSettlement ==
  /\ [](\A p \in KnownIds : \A v \in ResolveValues \cup RejectValues :
          /\ MethodResolve(Machine(queue, 0, "strict"), p, v).ret = Prom(p)
          /\ MethodReject(Machine(queue, 0, "strict"), p, v).ret = Prom(p))
  /\ [][/\ IsCall =>
             /\ promises' = promises
             /\ thrown' = "none"
             /\ queue' = Append(queue, [self |-> calls'[Len(calls')].p,
                                        state |-> calls'[Len(calls')].state,
                                        val |-> calls'[Len(calls')].val])
        /\ \A p \in 1..Len(promises) :
             (~Resolved(promises[p]) /\ Resolved(promises'[p]))
               => IsJob /\ Head(queue).self = p]_vars

\* The caller has called resolve or reject and the deferred job has not run.
C2_Witness ==
  /\ Len(calls) = 1
  /\ clock = 0
  /\ Len(queue) = 1
  /\ ~Resolved(promises[calls[1].p])
  /\ promises[calls[1].p].outcome = Null

\* C3: when the callback of d = p.then( f ) returns the pending Promise q, d stays
\* pending while q is pending, and once q has settled and the deferred jobs
\* have run, d has q's state and q's outcome.
C3_Adoption ==
  \A k \in 1..Len(log) :
    (log[k].b.v.t = "promise" /\ log[k].was = pending /\ FactoryCallsOnly
       /\ InvokedOnce(log[k].d))
      => /\ promises[log[k].b.v.n].state = pending => promises[log[k].d].state = pending
         /\ (queue = <<>> /\ Resolved(promises[log[k].b.v.n]))
              => /\ promises[log[k].d].state = promises[log[k].b.v.n].state
                 /\ promises[log[k].d].outcome = promises[log[k].b.v.n].outcome

\* C4: when the success callback of d = p.then( f ) returns a value x that is
\* neither a Promise nor an Error (x may be falsy), d is fulfilled with
\* outcome x and the success callbacks registered on d receive x.
C4_Chaining ==
  \A k \in 1..Len(log) :
    (/\ log[k].yay
     /\ log[k].b.k \in {"ret", "inc"}
     /\ HandlerResult(log[k].b, log[k].arg).t \notin {"promise", "error", "undefined"}
     /\ FactoryCallsOnly /\ InvokedOnce(log[k].d) /\ NeverAdopted(log[k].d))
      => /\ Resolved(promises[log[k].d])
              => /\ promises[log[k].d].state = resolved
                 /\ promises[log[k].d].outcome = HandlerResult(log[k].b, log[k].arg)
         /\ \A j \in 1..Len(log) :
              (reg[log[j].d].self = log[k].d /\ log[j].yay)
                => log[j].arg = HandlerResult(log[k].b, log[k].arg)

\* C5: a deferred job that fulfils a pending Promise with n >= 2 success
\* continuations, none of which returns a Promise, invokes each of them once,
\* in registration order, each with the value of the job.
C5_DrainOrder ==
  [][(/\ IsJob
      /\ Head(queue).state = resolved
      /\ promises[Head(queue).self].state = pending
      /\ Len(promises[Head(queue).self].fulfill) >= 2
      /\ \A i \in 1..Len(promises[Head(queue).self].fulfill) :
           reg[promises[Head(queue).self].fulfill[i].d].fwd = 0
      /\ \A k \in NewEntries : log'[k].b.v.t # "promise")
       => /\ Len(log') = Len(log) + Len(promises[Head(queue).self].fulfill)
          /\ \A i \in 1..Len(promises[Head(queue).self].fulfill) :
               /\ log'[Len(log) + i].d = promises[Head(queue).self].fulfill[i].d
               /\ log'[Len(log) + i].yay
               /\ log'[Len(log) + i].arg = Head(queue).val
               /\ log'[Len(log) + i].at = clock']_vars

\* C6: then( success ) on a Promise already fulfilled with V invokes success
\* inside the then call, once, with V, and queues nothing for it; a callback
\* invoked inside a then call is never invoked again.
C6_LateRegistration ==
  /\ [](\A i \in 1..Len(log) : \A k \in 1..Len(log) :
          (log[i].at = 0 /\ log[i].d = log[k].d /\ log[i].yay = log[k].yay) => i = k)
  /\ [][(/\ IsThen
         /\ reg'[Len(promises) + 1].success
         /\ promises[reg'[Len(promises) + 1].self].state = resolved)
          => /\ Len(log') = Len(log) + 1
             /\ log'[Len(log')].d = Len(promises) + 1
             /\ log'[Len(log')].yay
             /\ log'[Len(log')].at = 0
             /\ log'[Len(log')].arg = promises[reg'[Len(promises) + 1].self].outcome
             /\ \A q \in 1..Len(promises') : \A i \in 1..Len(promises'[q].fulfill) :
                  promises'[q].fulfill[i].d # Len(promises) + 1
             /\ ~reg'[Len(promises) + 1].failure
                  => /\ promises'[reg'[Len(promises) + 1].self].fulfill
                          = promises[reg'[Len(promises) + 1].self].fulfill
                     /\ promises'[reg'[Len(promises) + 1].self].error
                          = promises[reg'[Len(promises) + 1].self].error]_vars

\* A success callback has been invoked inside a then call, with the outcome
\* of the fulfilled Promise it was registered on.
C6_Witness ==
  \E k \in 1..Len(log) :
    /\ log[k].at = 0
    /\ log[k].yay
    /\ reg[log[k].d].wasS = resolved
    /\ log[k].arg = Num(10)

\* Whether the continuation [d, yay] is queued on some Promise.
Queued(d, yay) ==
  \E q \in 1..Len(promises) :
    \/ \E i \in 1..Len(promises[q].fulfill) : promises[q].fulfill[i] = [d |-> d, yay |-> yay]
    \/ \E i \in 1..Len(promises[q].error) : promises[q].error[i] = [d |-> d, yay |-> yay]

Invoked(d, yay) == \E k \in 1..Len(log) : log[k].d = d /\ log[k].yay = yay

\* C7: a success continuation vouched on a Promise in state rejected, or a
\* failure continuation vouched on a Promise in state fulfilled, is neither
\* queued nor, then or later, invoked.
C7_OppositeBranchDropped ==
  \A d \in 1..Len(reg) :
    /\ reg[d].wasS = broken => ~Queued(d, TRUE) /\ ~Invoked(d, TRUE)
    /\ reg[d].wasF = resolved => ~Queued(d, FALSE) /\ ~Invoked(d, FALSE)

\* A callback was registered for the branch opposite to the one its Promise
\* had settled to, and deferred jobs have run since on the derived Promise's parent.
C7_Witness ==
  \E d \in 1..Len(reg) :
    /\ reg[d].fwd = 0
    /\ reg[d].wasS = broken \/ reg[d].wasF = resolved
    /\ promises[d].parentNode = reg[d].self

\* C8: when the callback of d = p.then( f ) raises the object {code: 1}, the
\* rejection of d with an Error whose message is the JSON text of the object
\* is scheduled, the job raises nothing when every callback it invoked did
\* that, and d, once the deferred jobs have run, is rejected with that Error.
C8_ErrorIsolation ==
  /\ [](\A k \in 1..Len(log) :
          (log[k].b = Throw(Obj(1)) /\ FactoryCallsOnly /\ InvokedOnce(log[k].d)
             /\ NeverAdopted(log[k].d))
            => /\ Resolved(promises[log[k].d])
                    => /\ promises[log[k].d].state = broken
                       /\ promises[log[k].d].outcome = Err(JsonOfObj1)
               /\ queue = <<>> => Resolved(promises[log[k].d]))
  /\ [][/\ \A k \in NewEntries :
             log'[k].b = Throw(Obj(1))
               => \E i \in NewJobs :
                    queue'[i] = [self |-> log'[k].d, state |-> broken, val |-> Err(JsonOfObj1)]
        /\ (NewEntries # {} /\ \A k \in NewEntries : log'[k].b = Throw(Obj(1)))
             => thrown' = "none"]_vars

\* A derived Promise is rejected with the Error made of the JSON text of the
\* object its callback raised.
C8_Witness ==
  \E k \in 1..Len(log) :
    /\ log[k].b = Throw(Obj(1))
    /\ promises[log[k].d].state = broken
    /\ promises[log[k].d].outcome = Err(JsonOfObj1)
    /\ promises[log[k].d].outcome.s # ToStr(Obj(1))

\* C9: whatever value a callback passed to then raises, the step that invoked
\* it raises nothing to its caller and schedules the rejection of the derived
\* Promise.
C9_RaiseCaptured ==
  [][\A k \in NewEntries :
       log'[k].b.k = "throw"
         => /\ thrown' = "none"
            /\ \E i \in NewJobs : queue'[i].self = log'[k].d /\ queue'[i].state = broken]_vars

\* C10: when the failure callback of d = p.then( s, f ) returns undefined, an
\* invalid-arguments error is raised and no fulfilment of d is scheduled.
C10_RejectionUndefined ==
  [][\A k \in NewEntries :
       (~log'[k].yay /\ log'[k].b = Ret(Undefined))
         => /\ thrown' = "invalidArguments"
            /\ ~\E i \in NewJobs : queue'[i].self = log'[k].d /\ queue'[i].state = resolved]_vars

\* A single resolve / reject call was made, on a pending Promise without
\* continuations and without parent, and its job is queued and has not run.
SingleCall ==
  /\ Len(calls) = 1
  /\ clock = 0
  /\ queue = <<[self |-> calls[1].p, state |-> calls[1].state, val |-> calls[1].val]>>
  /\ promises[calls[1].p].state = pending
  /\ promises[calls[1].p].fulfill = <<>>
  /\ promises[calls[1].p].error = <<>>
  /\ promises[calls[1].p].parentNode = 0

\* The Promise of the first call is settled as that call asked.
SettledAsCalled ==
  /\ calls # <<>>
  /\ Resolved(promises[calls[1].p])
  /\ promises[calls[1].p].state = calls[1].state
  /\ promises[calls[1].p].outcome = calls[1].val

\* A continuation is registered on the Promise of the first call.
Registered ==
  /\ calls # <<>>
  /\ promises[calls[1].p].fulfill # <<>> \/ promises[calls[1].p].error # <<>>

\* C11: the deferred job of P.resolve( v ) / P.reject( v ), run on a pending
\* Promise without continuations and without parent, raises nothing and leaves
\* P settled, fulfilled / rejected, with outcome v; under a fair scheduler a
\* single call on such a Promise leads to that state, unless a continuation
\* is registered on P before the job runs.
C11_SettleBasic ==
  /\ [][(/\ IsJob
         /\ promises[Head(queue).self].state = pending
         /\ promises[Head(queue).self].fulfill = <<>>
         /\ promises[Head(queue).self].error = <<>>
         /\ promises[Head(queue).self].parentNode = 0)
          => /\ thrown' = "none"
             /\ Resolved(promises'[Head(queue).self])
             /\ promises'[Head(queue).self].state = Head(queue).state
             /\ promises'[Head(queue).self].outcome = Head(queue).val
             /\ queue' = Tail(queue)]_vars
  /\ SingleCall ~> (SettledAsCalled \/ Registered)

\* The job of a single call has run on a Promise nothing was registered on.
C11_Witness ==
  /\ Len(calls) = 1
  /\ thens = 0
  /\ clock = 1
  /\ SettledAsCalled
  /\ promises[calls[1].p].frozen

\* A settlement job has finished on p without adoption.
Final(p) ==
  /\ Resolved(promises[p])
  /\ promises[p].fulfill = <<>>
  /\ promises[p].error = <<>>

JobOf(c) == [self |-> c.p, state |-> c.state, val |-> c.val]

\* C13: when resolve / reject has been called twice on the same Promise
\* before any deferred job ran, the jobs are queued in call order and the
\* first job leaves the Promise settled with the state and the value of the
\* first call (so that the later job meets a settled Promise), also when a
\* continuation drained by the first job returns a Promise.
C13_FirstCallWins ==
  [][(IsJob /\ clock = 0 /\ Len(calls) = 2 /\ calls[1].p = calls[2].p)
       => /\ queue = <<JobOf(calls[1]), JobOf(calls[2])>>
          /\ Resolved(promises'[calls[1].p])
          /\ promises'[calls[1].p].state = calls[1].state
          /\ promises'[calls[1].p].outcome = calls[1].val]_vars

\* The derived Promises of the then calls made on p with user callbacks.
DerivedOf(p) == {d \in 1..Len(reg) : reg[d].self = p /\ reg[d].fwd = 0}

\* The job at the head of the queue settles its Promise to a branch for which
\* the then call that made d was given no callback.
SkippedBranch(d) ==
  \/ Head(queue).state = resolved /\ ~reg[d].success
  \/ Head(queue).state = broken /\ ~reg[d].failure

\* C14: d = p.then( success, failure ) appends nothing to the sequence of a
\* branch whose argument is not callable, and returns a new pending Promise
\* whose parent is p; a job that settles p to such a branch invokes no
\* callback for d, leaves d as it was and, unless d has itself adopted a
\* Promise, schedules nothing for d.
C14_NonCallableSkipped ==
  [][/\ IsThen =>
          /\ ~reg'[Len(promises) + 1].success
               => promises'[reg'[Len(promises) + 1].self].fulfill
                    = promises[reg'[Len(promises) + 1].self].fulfill
          /\ ~reg'[Len(promises) + 1].failure
               => promises'[reg'[Len(promises) + 1].self].error
                    = promises[reg'[Len(promises) + 1].self].error
          /\ thrown' = "none"
          /\ promises'[Len(promises) + 1].state = pending
          /\ promises'[Len(promises) + 1].parentNode = reg'[Len(promises) + 1].self
     /\ (IsJob /\ promises[Head(queue).self].state = pending) =>
          \A d \in DerivedOf(Head(queue).self) :
            SkippedBranch(d)
              => /\ \A k \in NewEntries : log'[k].d # d
                 /\ (\A q \in 1..Len(reg) : reg[q].fwd # d)
                      => \A i \in NewJobs : queue'[i].self # d
                 /\ promises'[d] = promises[d]]_vars

\* The step runs a settlement job that finishes on its Promise without
\* adoption and without raising.
JobFinishes ==
  /\ IsJob
  /\ promises[Head(queue).self].state = pending
  /\ thrown' = "none"
  /\ Resolved(promises'[Head(queue).self])

\* The job at the head of the queue drains no forwarding continuation.
NoForwarderDrained ==
  \A i \in 1..Len(Drained) : reg[Drained[i].d].fwd = 0

\* C15: when a settlement job finishes on c without adoption and c's parent
\* is pending, the parent's resolve is scheduled if c ends fulfilled and the
\* parent's reject if c ends rejected, with c's outcome as the value; when
\* the parent is absent or not pending, nothing is scheduled for it.
C15_ReverseMirrors ==
  [][JobFinishes =>
       /\ (/\ promises[Head(queue).self].parentNode # 0
           /\ promises[promises[Head(queue).self].parentNode].state = pending)
            => \E i \in NewJobs :
                 queue'[i] = [self |-> promises[Head(queue).self].parentNode,
                              state |-> promises'[Head(queue).self].state,
                              val |-> promises'[Head(queue).self].outcome]
       /\ (/\ promises[Head(queue).self].parentNode # 0
           /\ promises[promises[Head(queue).self].parentNode].state # pending
           /\ NoForwarderDrained)
            => \A i \in NewJobs : queue'[i].self # promises[Head(queue).self].parentNode]_vars

\* C16: when a job settles a Promise as fulfilled and the callback of one of
\* the drained continuations raises, the job leaves the Promise rejected,
\* with an Error a drained continuation produced as its outcome.
C16_LateRejectionOverride ==
  [][(/\ JobFinishes
      /\ Head(queue).state = resolved
      /\ \E k \in NewEntries : log'[k].b.k = "throw")
       => /\ promises'[Head(queue).self].state = broken
          /\ \E k \in NewEntries :
               /\ log'[k].b.k = "throw"
               /\ promises'[Head(queue).self].outcome = Caught(log'[k].b.v)]_vars

\* The step runs a settlement job in which a drained continuation returns a
\* Promise.
JobAdopts ==
  /\ IsJob
  /\ promises[Head(queue).self].state = pending
  /\ NewEntries # {}
  /\ log'[Len(log')].b.v.t = "promise"

Branch == IF Head(queue).state = broken THEN "error" ELSE "fulfill"
Opposite == IF Head(queue).state = broken THEN "fulfill" ELSE "error"

\* What the adoption step of a settlement job leaves behind: the job returns
\* without raising, p is pending with outcome null and not frozen,
\* continuations 1..k are removed from the drained sequence, continuations
\* k+1..n are not invoked and stay queued in their order, the other sequence
\* is unchanged, nothing is scheduled for p's parent, and q carries a pair of
\* continuations that forward to p.
AdoptionEffects ==
  /\ thrown' = "none"
  /\ promises'[Head(queue).self].state = pending
  /\ promises'[Head(queue).self].outcome = Null
  /\ ~promises'[Head(queue).self].frozen
  /\ promises'[Head(queue).self][Opposite] = promises[Head(queue).self][Opposite]
  /\ \E k \in 1..Len(Drained) :
       /\ Drained[k].d = log'[Len(log')].d
       /\ promises'[Head(queue).self][Branch] = SubSeq(Drained, k + 1, Len(Drained))
       /\ \A j \in NewEntries : \E i \in 1..k : Drained[i].d = log'[j].d
  /\ (/\ promises[Head(queue).self].parentNode # 0
      /\ promises[Head(queue).self].parentNode \notin DerivedOf(Head(queue).self)
      /\ NoForwarderDrained)
       => \A i \in NewJobs : queue'[i].self # promises[Head(queue).self].parentNode
  /\ promises'[log'[Len(log')].b.v.n].fulfill # <<>>
  /\ promises'[log'[Len(log')].b.v.n].error # <<>>
  /\ LET f == promises'[log'[Len(log')].b.v.n].fulfill
         e == promises'[log'[Len(log')].b.v.n].error
     IN /\ f[Len(f)].yay /\ reg'[f[Len(f)].d].fwd = Head(queue).self
        /\ ~e[Len(e)].yay /\ reg'[e[Len(e)].d].fwd = Head(queue).self
        /\ f[Len(f)].d = e[Len(e)].d

\* C17: when the k-th drained continuation of p returns a Promise q, the
\* settlement job leaves p pending with outcome null and not frozen, the
\* continuations 1..k removed, the continuations k+1..n queued and not
\* invoked, the other sequence unchanged, nothing scheduled for p's parent,
\* and q carrying the pair of continuations that forward to p.
C17_AdoptionStep == [][JobAdopts => AdoptionEffects]_vars

\* The adoption step is as described whenever the returned Promise is pending.
PendingAdoptionStep ==
  [][(JobAdopts /\ log'[Len(log')].was = pending) => AdoptionEffects]_vars

\* The log entries in which a callback registered on p returned a Promise.
AdoptionsOf(p) ==
  {k \in 1..Len(log) : reg[log[k].d].self = p /\ log[k].b.v.t = "promise"}

\* The caller has settled only factory Promises and has called resolve /
\* reject on p at most once.
NoFurtherCall(p) ==
  /\ FactoryCallsOnly
  /\ Cardinality({c \in 1..Len(calls) : calls[c].p = p}) <= 1

\* C18: after p has adopted the pending Promise q in a settlement job (and
\* adopts no other Promise, the caller making no further call on p and no
\* callback raising undefined), p is
\* pending while q is pending, and once q has settled and the deferred jobs
\* have run, p has q's state and q's outcome.
C18_AdoptedOutcome ==
  \A k \in 1..Len(log) :
    (/\ log[k].b.v.t = "promise"
     /\ log[k].was = pending
     /\ log[k].at > 0
     /\ AdoptionsOf(reg[log[k].d].self) = {k}
     /\ NoFurtherCall(reg[log[k].d].self)
     /\ \A j \in 1..Len(log) : log[j].b # Throw(Undefined))
      => /\ promises[log[k].b.v.n].state = pending
              => promises[reg[log[k].d].self].state = pending
         /\ (queue = <<>> /\ Resolved(promises[log[k].b.v.n]))
              => /\ promises[reg[log[k].d].self].state = promises[log[k].b.v.n].state
                 /\ promises[reg[log[k].d].self].outcome = promises[log[k].b.v.n].outcome

\* C19: a Promise's state changes only from pending to fulfilled or rejected,
\* in the step that runs a deferred job on that Promise and to the state the
\* job asks for, or from fulfilled / rejected to pending, in a step in which
\* a callback registered on that Promise has just returned a Promise; a step
\* re-arms at most once (the callback that returns a Promise is the last one
\* invoked).
C19_StateMachine ==
  [][/\ \A p \in 1..Len(promises) :
          promises'[p].state # promises[p].state
            => \/ /\ promises[p].state = pending
                  /\ IsJob
                  /\ Head(queue).self = p
                  /\ promises'[p].state = Head(queue).state
               \/ /\ Resolved(promises[p])
                  /\ promises'[p].state = pending
                  /\ NewEntries # {}
                  /\ log'[Len(log')].b.v.t = "promise"
                  /\ reg'[log'[Len(log')].d].self = p
     /\ \A k \in NewEntries : log'[k].b.v.t = "promise" => k = Len(log')]_vars

\* A Promise that a job left fulfilled is pending again: a callback
\* registered on it afterwards returned a Promise.
C19_Witness ==
  \E k \in 1..Len(log) :
    /\ log[k].at = 0
    /\ log[k].b.v.t = "promise"
    /\ reg[log[k].d].wasS = resolved
    /\ promises[reg[log[k].d].self].state = pending

\* C20: between deferred jobs a Promise that is fulfilled or rejected has both
\* continuation sequences empty, also after a job in which a callback raised,
\* and a continuation is appended only to a Promise that is pending.
C20_SettledHasNoContinuations ==
  /\ [](\A p \in 1..Len(promises) :
          Resolved(promises[p]) => promises[p].fulfill = <<>> /\ promises[p].error = <<>>)
  /\ [][\A p \in 1..Len(promises) :
          (\/ Len(promises'[p].fulfill) > Len(promises[p].fulfill)
           \/ Len(promises'[p].error) > Len(promises[p].error))
            => promises'[p].state = pending]_vars

\* The same, as long as no callback has raised undefined.
SettledHasNoContinuationsUnlessAborted ==
  /\ [](\A p \in 1..Len(promises) :
          (Resolved(promises[p]) /\ \A j \in 1..Len(log) : log[j].b # Throw(Undefined))
            => promises[p].fulfill = <<>> /\ promises[p].error = <<>>)
  /\ [][\A p \in 1..Len(promises) :
          (\/ Len(promises'[p].fulfill) > Len(promises[p].fulfill)
           \/ Len(promises'[p].error) > Len(promises[p].error))
            => promises'[p].state = pending]_vars

\* The entries of the callback history that are invocations of the
\* continuation (d, yay).
InvocationsOf(d, yay) == {k \in 1..Len(log) : log[k].d = d /\ log[k].yay = yay}

\* C21: every continuation registered on a Promise is invoked at most once
\* over the whole lifetime of the Promise, whatever the then / resolve /
\* reject calls: neither a drain that ended in adoption nor a drain aborted
\* by a raised error lets a continuation that has run be run again.
C21_InvokedAtMostOnce ==
  \A d \in 1..Len(reg) : \A yay \in BOOLEAN : Cardinality(InvocationsOf(d, yay)) <= 1

\* The caller has called resolve / reject at most once on each Promise.
OncePerPromise ==
  \A c1, c2 \in 1..Len(calls) : calls[c1].p = calls[c2].p => c1 = c2

\* C22: when the caller settles only Promises it made with the factory, and
\* each of them at most once, no deferred settlement job raises the
\* double-settlement error, adoption included.
C22_NoEngineDoubleSettle ==
  [][(IsJob /\ FactoryCallsOnly /\ OncePerPromise) => thrown' # "promiseResolved"]_vars

\* The jobs a step schedules on d.
NewJobsOn(d) == {j \in NewJobs : queue'[j].self = d}

\* Invocation k of the callback history settles its derived Promise d in the
\* direction its callback's completion gives, by exactly one new job.
ScheduledOnce(k) ==
  /\ Cardinality(NewJobsOn(log'[k].d)) = 1
  /\ \A j \in NewJobsOn(log'[k].d) :
       queue'[j].state = IF log'[k].b.k = "throw" THEN broken ELSE resolved

\* d has adopted no Promise: only its own callbacks schedule it.
OnlyOwnCallbacks(d) ==
  \A k \in 1..Len(log') : reg'[log'[k].d].self = d => log'[k].b.v.t # "promise"

\* C23: for d = p.then(success, failure), whichever branch of p fires, an
\* invoked callback that does not return a Promise has d scheduled exactly
\* once: for fulfilment when it completed normally, for rejection when it
\* raised.
C23_DirectionByRaise ==
  [][\A k \in NewEntries :
       (log'[k].b.v.t # "promise" /\ OnlyOwnCallbacks(log'[k].d)) => ScheduledOnce(k)]_vars

\* The same for every callback that did not raise undefined.
DirectionByRaiseUnlessUndefined ==
  [][\A k \in NewEntries :
       (/\ log'[k].b.v.t # "promise"
        /\ log'[k].b # Throw(Undefined)
        /\ OnlyOwnCallbacks(log'[k].d)) => ScheduledOnce(k)]_vars

\* C24: promise.resolve never starts while a settlement job is draining.  A
\* job step runs the job at the head of the queue and no other: the jobs
\* that were waiting keep their places behind it, whatever the drained
\* continuations call is appended to the queue, and no Promise but the job's
\* own changes state.  A step of the caller, a then that invokes a
\* continuation at once included, runs no job and settles nothing.
C24_NoReentrantSettle ==
  [][/\ IsJob =>
          /\ Len(queue') >= Len(queue) - 1
          /\ SubSeq(queue', 1, Len(queue) - 1) = Tail(queue)
          /\ \A p \in 1..Len(promises) :
               p # Head(queue).self => promises'[p].state = promises[p].state
     /\ ~IsJob =>
          /\ Len(queue') >= Len(queue)
          /\ SubSeq(queue', 1, Len(queue)) = queue
          /\ \A p \in 1..Len(promises) :
               promises'[p].state \in {promises[p].state, pending}]_vars

\* A continuation drained by a job has scheduled its derived Promise while
\* another job was already waiting: the derived Promise is still pending
\* and its job stands behind the waiting one.
C24_Witness ==
  \E k \in 1..Len(log) : \E i, j \in 1..Len(queue) :
    /\ log[k].at = clock
    /\ clock >= 1
    /\ log[k].b.v.t # "promise"
    /\ i < j
    /\ queue[j].self = log[k].d
    /\ queue[i].self # log[k].d
    /\ promises[log[k].d].state = pending

\* The pending Promises that hold a forwarding continuation of an adoption
\* by p: their settlement will call resolve / reject on p.
OutstandingOn(p) ==
  {q \in 1..Len(promises) :
     /\ promises[q].state = pending
     /\ \E h \in {promises[q].fulfill[i] : i \in 1..Len(promises[q].fulfill)}
                   \cup {promises[q].error[i] : i \in 1..Len(promises[q].error)} :
          reg[h.d].fwd = p}

\* A locked Promise is settled, holds no continuation, and no adoption is
\* outstanding on it.
LockedIsFinal ==
  \A p \in 1..Len(promises) :
    promises[p].frozen
      => /\ Resolved(promises[p])
         /\ promises[p].fulfill = <<>>
         /\ promises[p].error = <<>>
         /\ OutstandingOn(p) = {}

\* C25: whenever a Promise is locked, its state is fulfilled or rejected,
\* both continuation sequences are empty and no pending inner Promise holds
\* forwarding continuations for it; a settlement that ended in adoption does
\* not lock its Promise.
C25_LockedIsFinal ==
  /\ []LockedIsFinal
  /\ [][JobAdopts => ~promises'[Head(queue).self].frozen]_vars

\* The parts of C25 that do not depend on the adoptions outstanding.
LockedIsSettledAndDrained ==
  /\ [](\A p \in 1..Len(promises) :
          promises[p].frozen
            => /\ Resolved(promises[p])
               /\ promises[p].fulfill = <<>>
               /\ promises[p].error = <<>>)
  /\ [][JobAdopts => ~promises'[Head(queue).self].frozen]_vars

====
